---- MODULE Spec2Model ----
(***************************************************************************)
(* Model of the AegisAI dashboard's pipeline orchestrator: the App         *)
(* component's state and its handleSanitize handler, which chains five     *)
(* HTTP requests (sanitize, context, llm, output-filter, final).           *)
(*                                                                         *)
(* JavaScript values are records [t, n, s]: t is the type tag, n the       *)
(* number in hundredths (62 is 6200, 0.73 is 73), s the characters of a    *)
(* string or the identity of an opaque object. Strings are sequences of    *)
(* one-character strings.                                                  *)
(***************************************************************************)
EXTENDS Integers, Sequences, FiniteSets, TLC

\* The number of times the Sanitize button may start a run in one behaviour.
MaxRuns == 2

\* How far below the cap of the log the logs of LogSpec start.
MaxBelowCap == 1

-----------------------------------------------------------------------------
\* JavaScript values

JNull == [t |-> "null", n |-> 0, s |-> <<>>]
JNum(h) == [t |-> "num", n |-> h, s |-> <<>>]
JStr(cs) == [t |-> "str", n |-> 0, s |-> cs]
JObj(id) == [t |-> "obj", n |-> 0, s |-> id]
JArr(id) == [t |-> "arr", n |-> 0, s |-> id]
JBool(b) == [t |-> "bool", n |-> (IF b THEN 1 ELSE 0), s |-> <<>>]

\* a ?? b
Nullish(a, b) == IF a.t = "null" THEN b ELSE a

\* !v : JavaScript falsiness
Falsy(v) ==
  \/ v.t = "null"
  \/ v.t = "str" /\ v.s = <<>>
  \/ v.t = "num" /\ v.n = 0
  \/ v.t = "bool" /\ v.n = 0

IsSpace(c) == c \in {" ", "\n", "\t"}

RECURSIVE TrimStart(_)
TrimStart(cs) ==
  IF cs # <<>> /\ IsSpace(Head(cs)) THEN TrimStart(Tail(cs)) ELSE cs

RECURSIVE TrimEnd(_)
TrimEnd(cs) ==
  IF cs # <<>> /\ IsSpace(cs[Len(cs)])
  THEN TrimEnd(SubSeq(cs, 1, Len(cs) - 1))
  ELSE cs

\* A Trim that forgets to strip: the guard then reads !text.
TrimNoStrip(cs) == cs

\* String.prototype.trim
Trim(cs) == TrimEnd(TrimStart(cs))

Digits == {"0", "1", "2", "3", "4", "5", "6", "7", "8", "9"}

DigitVal(c) ==
  CASE c = "0" -> 0 [] c = "1" -> 1 [] c = "2" -> 2 [] c = "3" -> 3
    [] c = "4" -> 4 [] c = "5" -> 5 [] c = "6" -> 6 [] c = "7" -> 7
    [] c = "8" -> 8 [] c = "9" -> 9

\* The value of the longest digit prefix of cs, acc being the value so far.
RECURSIVE DigitPrefix(_, _)
DigitPrefix(cs, acc) ==
  IF cs # <<>> /\ Head(cs) \in Digits
  THEN DigitPrefix(Tail(cs), 10 * acc + DigitVal(Head(cs)))
  ELSE acc

\* parseInt of a string: <<>> is NaN, <<k>> the integer k.
ParseIntStr(cs) ==
  LET t == TrimStart(cs)
      neg == t # <<>> /\ Head(t) = "-"
      u == IF t # <<>> /\ Head(t) \in {"-", "+"} THEN Tail(t) ELSE t
  IN IF u = <<>> \/ Head(u) \notin Digits THEN <<>>
     ELSE <<(IF neg THEN -1 ELSE 1) * DigitPrefix(u, 0)>>

\* parseInt(v, 10): the argument is converted to a string and its integer
\* prefix is read; a number loses its fraction, anything else is NaN.
ParseInt(v) ==
  CASE v.t = "num" -> <<(IF v.n >= 0 THEN v.n \div 100 ELSE -((-v.n) \div 100))>>
    [] v.t = "str" -> ParseIntStr(v.s)
    [] OTHER -> <<>>

Max(a, b) == IF a >= b THEN a ELSE b
Min(a, b) == IF a <= b THEN a ELSE b

\* A clamp without its lower bound.
ClampScoreNoFloor(p) == Min(100, IF p = <<>> THEN 0 ELSE p[1])

\* Math.max(0, Math.min(100, Number.isNaN(k) ? 0 : k))
ClampScore(p) == Max(0, Min(100, IF p = <<>> THEN 0 ELSE p[1]))


\* Math.round of a number in hundredths (halves round up), in hundredths.
Round(h) == ((h + 50) \div 100) * 100

\* A normalization that scales only confidences below 1.
NormConfStrict(c) ==
  IF c.t = "null" THEN JNull
  ELSE IF c.n < 100 THEN JNum(Round(c.n * 100)) ELSE JNum(Round(c.n))

\* confRaw == null ? null : (confRaw <= 1 ? Math.round(confRaw * 100) : Math.round(confRaw))
\* for a numeric or absent confidence.
NormConf(c) ==
  IF c.t = "null" THEN JNull
  ELSE IF c.n <= 100 THEN JNum(Round(c.n * 100)) ELSE JNum(Round(c.n))

-----------------------------------------------------------------------------
\* What the user can type and what the backend can answer

Prompts == {<<>>, <<" ">>, <<" ", "a">>}

\* response.data of POST /api/sanitize
SanitizeData ==
  { [sanitized |-> JStr(<<"S">>), risk |-> JNum(6200), risk_score |-> JNull,
     rehydration_map |-> JObj(<<"m1">>), entities |-> JObj(<<"e1">>)],
    [sanitized |-> JNull, risk |-> JNull, risk_score |-> JNum(15000),
     rehydration_map |-> JNull, entities |-> JNull],
    [sanitized |-> JStr(<<"T">>), risk |-> JStr(<<"x">>), risk_score |-> JNum(3000),
     rehydration_map |-> JObj(<<"m1">>), entities |-> JNull] }

\* response.data of POST /api/context
ContextData ==
  { [category |-> JStr(<<"m">>), confidence |-> JNum(73)],
    [category |-> JNull, confidence |-> JNull],
    [category |-> JStr(<<"f">>), confidence |-> JNum(7340)] }

\* response.data of POST /api/llm
LlmData ==
  { [answer |-> JStr(<<"A">>), output |-> JNull, confidence |-> JNum(90),
     explanations |-> JStr(<<"x">>), fallback_used |-> JBool(TRUE),
     raw |-> JStr(<<"r">>), rehydration_map |-> JNull],
    [answer |-> JNull, output |-> JNull, confidence |-> JNull,
     explanations |-> JNull, fallback_used |-> JNull,
     raw |-> JNull, rehydration_map |-> JObj(<<"m2">>)] }

\* response.data of POST /api/output-filter
FilterData ==
  { [safe_sanitized_text |-> JStr(<<"F">>), leak_detected |-> JBool(TRUE),
     notes |-> JStr(<<"n">>), rehydration_map |-> JObj(<<"m3">>)],
    [safe_sanitized_text |-> JNull, leak_detected |-> JNull,
     notes |-> JNull, rehydration_map |-> JNull] }

\* response.data of POST /api/final
FinalData ==
  { [final_rehydrated_text |-> JStr(<<"R">>), result |-> JNull,
     risk |-> JNum(1000), risk_score |-> JNull],
    [final_rehydrated_text |-> JNull, result |-> JNull,
     risk |-> JNull, risk_score |-> JNull],
    [final_rehydrated_text |-> JNull, result |-> JStr(<<"Q">>),
     risk |-> JNull, risk_score |-> JNum(8000)] }

Stages == <<"sanitize", "context", "llm", "filter", "final">>

StageNo(st) ==
  CASE st = "sanitize" -> 1 [] st = "context" -> 2 [] st = "llm" -> 3
    [] st = "filter" -> 4 [] st = "final" -> 5

\* The { timeout } option of each axios.post, in milliseconds.
Timeout(st) ==
  CASE st = "sanitize" -> 10000 [] st = "context" -> 10000 [] st = "llm" -> 20000
    [] st = "filter" -> 15000 [] st = "final" -> 15000

-----------------------------------------------------------------------------
\* State

VARIABLES
  text, sanitized, risk, lastRisk, logs, loading,   \* useState of App
  ctxCategory, ctxConfidence, llmText,
  filteredOriginal, filteredSafe, finalText, finalRisk,
  runs,      \* the activations of handleSanitize: id -> position and locals
  net,       \* the requests issued and not yet answered
  started,   \* how many activations have passed the guard
  event      \* what the last event did if it was a click on Sanitize, else "none"

slots == <<sanitized, ctxCategory, ctxConfidence, llmText,
           filteredOriginal, filteredSafe, finalText>>
risks == <<risk, lastRisk, finalRisk>>
appState == <<text, slots, risks, logs, loading>>
vars == <<appState, runs, net, started, event>>

EmptyStr == JStr(<<>>)

NoLlmResult ==
  [answer |-> JNull, confidence |-> JNull, explanations |-> JNull,
   fallback_used |-> JNull, raw |-> JNull]

NoFiltered == [safe_sanitized_text |-> JNull, leak_detected |-> JNull, notes |-> JNull]

\* A response not yet received: every field of its data reads as undefined.
NoSanitizeRes ==
  [sanitized |-> JNull, risk |-> JNull, risk_score |-> JNull,
   rehydration_map |-> JNull, entities |-> JNull]

NoCtxRes == [category |-> JNull, confidence |-> JNull]

NoLlmRes ==
  [answer |-> JNull, output |-> JNull, confidence |-> JNull, explanations |-> JNull,
   fallback_used |-> JNull, raw |-> JNull, rehydration_map |-> JNull]

NoFilterRes ==
  [safe_sanitized_text |-> JNull, leak_detected |-> JNull, notes |-> JNull,
   rehydration_map |-> JNull]

NoFinalRes ==
  [final_rehydrated_text |-> JNull, result |-> JNull, risk |-> JNull,
   risk_score |-> JNull]

NoContext == [category |-> JNull, confidence |-> JNull]

\* The body of a request; a field the endpoint is not sent is null.
NoBody ==
  [input |-> JNull, sanitized |-> JNull, context |-> NoContext, answer |-> JNull,
   llm_result |-> NoLlmResult, filtered_output |-> NoFiltered,
   entities |-> JNull, rehydration_map |-> JNull]

Request(st, body) == [stage |-> st, timeout |-> Timeout(st), body |-> body]

\* An activation of handleSanitize that has just passed its guard: the
\* closure's text and its locals, none assigned yet.
NewRun(id, t) ==
  [id |-> id, pc |-> "sanitize", text |-> t,
   sanitizeRes |-> NoSanitizeRes, ctxRes |-> NoCtxRes, llmRes |-> NoLlmRes,
   finalRes |-> NoFinalRes, finalTextValue |-> JNull, finalR |-> 0,
   out |-> JNull, score |-> 0, rehydrationMap |-> JNull, entities |-> JNull,
   context |-> NoContext, llmResult |-> NoLlmResult, llmRehydrationMap |-> JNull,
   filterRes |-> NoFilterRes, filterRehydrationMap |-> JNull,
   issued |-> <<>>, failedAt |-> "none", failedBy |-> "none"]

Active(r) == r.pc \notin {"done", "failed"}

Init ==
  /\ text = <<>>
  /\ sanitized = EmptyStr
  /\ risk = 0
  /\ lastRisk = 0
  /\ logs = <<>>
  /\ loading = FALSE
  /\ ctxCategory = JNull
  /\ ctxConfidence = JNull
  /\ llmText = EmptyStr
  /\ filteredOriginal = EmptyStr
  /\ filteredSafe = EmptyStr
  /\ finalText = EmptyStr
  /\ finalRisk = <<>>
  /\ runs = <<>>
  /\ net = {}
  /\ started = 0
  /\ event = "none"


-----------------------------------------------------------------------------
\* The Sanitize button and the prompt

\* !text.trim()
Blank(t) == Trim(t) = <<>>

\* A button that stays enabled while a run is loading.
ButtonDisabledNoLoading == Blank(text)

\* disabled={loading || !text.trim()}
ButtonDisabled == loading \/ Blank(text)

\* onChange={(e) => setText(e.target.value)}
SetText ==
  /\ \E t \in Prompts \ {text} : text' = t
  /\ event' = "none"
  /\ UNCHANGED <<slots, risks, logs, loading, runs, net, started>>

\* A clearPipeline that forgets setLlmText('').
clearPipelineKeepsLlm ==
  /\ sanitized' = EmptyStr
  /\ ctxCategory' = JNull
  /\ ctxConfidence' = JNull
  /\ filteredOriginal' = EmptyStr
  /\ filteredSafe' = EmptyStr
  /\ finalText' = EmptyStr
  /\ UNCHANGED <<llmText, risk, lastRisk, finalRisk>>

\* A clearPipeline that also resets the risk values.
clearPipelineResetsRisk ==
  /\ sanitized' = EmptyStr
  /\ ctxCategory' = JNull
  /\ ctxConfidence' = JNull
  /\ llmText' = EmptyStr
  /\ filteredOriginal' = EmptyStr
  /\ filteredSafe' = EmptyStr
  /\ finalText' = EmptyStr
  /\ risk' = 0
  /\ lastRisk' = 0
  /\ finalRisk' = <<>>

\* A clearPipeline that also sets finalRisk back to null.
clearPipelineResetsFinalRisk ==
  /\ sanitized' = EmptyStr
  /\ ctxCategory' = JNull
  /\ ctxConfidence' = JNull
  /\ llmText' = EmptyStr
  /\ filteredOriginal' = EmptyStr
  /\ filteredSafe' = EmptyStr
  /\ finalText' = EmptyStr
  /\ finalRisk' = <<>>
  /\ UNCHANGED <<risk, lastRisk>>

\* clearPipeline(): the seven display slots; risk, lastRisk and finalRisk stay.
clearPipeline ==
  /\ sanitized' = EmptyStr
  /\ ctxCategory' = JNull
  /\ ctxConfidence' = JNull
  /\ llmText' = EmptyStr
  /\ filteredOriginal' = EmptyStr
  /\ filteredSafe' = EmptyStr
  /\ finalText' = EmptyStr
  /\ UNCHANGED <<risk, lastRisk, finalRisk>>

\* The activations still running, to which the new one is added.
Running == {i \in DOMAIN runs : Active(runs[i])}

\* axios.post: the request joins the run's history and the network.
Issue(r, st, body) == [r EXCEPT !.pc = st, !.issued = Append(@, Request(st, body))]

\* handleSanitize up to its first await.
handleSanitize ==
  IF Blank(text)
  THEN /\ event' = "returned"
       /\ UNCHANGED <<appState, runs, net, started>>
  ELSE /\ started < MaxRuns
       /\ loading' = TRUE
       /\ clearPipeline
       /\ LET id == started + 1
              r == Issue(NewRun(id, text), "sanitize",
                         [NoBody EXCEPT !.input = JStr(text)])
          IN /\ runs' = [i \in Running \cup {id} |-> IF i = id THEN r ELSE runs[i]]
             /\ net' = net \cup {[run |-> id, stage |-> "sanitize"]}
             /\ started' = id
       /\ event' = "started"
       /\ UNCHANGED <<text, logs>>

\* A click on the Sanitize button: a disabled button dispatches no onClick.
ClickSanitize ==
  IF ButtonDisabled
  THEN /\ event' = "ignored"
       /\ UNCHANGED <<appState, runs, net, started>>
  ELSE handleSanitize

-----------------------------------------------------------------------------
\* The continuations of handleSanitize, one per await

\* The request m is the one its run is awaiting.
Awaited(m, st) ==
  /\ m \in net
  /\ m.stage = st
  /\ m.run \in DOMAIN runs
  /\ runs[m.run].pc = st

\* The next request goes out while the previous one is still outstanding.
ProceedNoAwait(m, r, st) ==
  /\ runs' = [runs EXCEPT ![m.run] = r]
  /\ net' = net \cup {[run |-> m.run, stage |-> st]}

\* The response of m is consumed and the run issues its next request.
Proceed(m, r, st) ==
  /\ runs' = [runs EXCEPT ![m.run] = r]
  /\ net' = (net \ {m}) \cup {[run |-> m.run, stage |-> st]}

\* An input read from the current prompt instead of the closure.
InputOfCurrent(r) == JStr(text)

\* input: text, the text of the render whose handler was called.
InputOf(r) == JStr(r.text)

\* A map taken from the sanitize stage whatever the LLM response holds.
LlmMapStale(d, r) == r.rehydrationMap

\* llmRes.data?.rehydration_map ?? rehydrationMap
LlmMap(d, r) == Nullish(d.rehydration_map, r.rehydrationMap)

\* A filtered_output without the fallback to the answer.
FilteredOutputRaw(d, answer) ==
  [safe_sanitized_text |-> d.safe_sanitized_text,
   leak_detected |-> Nullish(d.leak_detected, JBool(FALSE)),
   notes |-> Nullish(d.notes, JNull)]

\* The filtered_output field of the final request.
FilteredOutput(d, answer) ==
  [safe_sanitized_text |-> Nullish(d.safe_sanitized_text, answer),
   leak_detected |-> Nullish(d.leak_detected, JBool(FALSE)),
   notes |-> Nullish(d.notes, JNull)]

\* A setLogs that keeps one entry too many: prev.slice(0, 20).
PrependLogOffByOne(prev, entry) == <<entry>> \o SubSeq(prev, 1, Min(20, Len(prev)))

\* A setLogs that drops the new entry.
PrependLogDrop(prev, entry) == SubSeq(prev, 1, Min(19, Len(prev)))

\* setLogs((prev) => [{ text: out, score }, ...prev.slice(0, 19)])
PrependLog(prev, entry) == <<entry>> \o SubSeq(prev, 1, Min(19, Len(prev)))

\* 1) the sanitize response arrives. D is what the backend may answer.
AfterSanitizeFrom(D) ==
  \E m \in net, d \in D :
    /\ Awaited(m, "sanitize")
    /\ LET r == runs[m.run]
           out == Nullish(d.sanitized, EmptyStr)
           scoreRaw == Nullish(d.risk, Nullish(d.risk_score, JNum(0)))
           score == ClampScore(ParseInt(scoreRaw))
           r1 == [r EXCEPT !.sanitizeRes = d, !.out = out, !.score = score,
                           !.rehydrationMap = Nullish(d.rehydration_map, JObj(<<>>)),
                           !.entities = Nullish(d.entities, JArr(<<>>))]
       IN /\ sanitized' = out
          /\ risk' = score
          /\ lastRisk' = score
          /\ logs' = PrependLog(logs, [text |-> out, score |-> score])
          /\ Proceed(m, Issue(r1, "context",
                              [NoBody EXCEPT !.input = InputOf(r), !.sanitized = out]),
                     "context")
    /\ event' = "none"
    /\ UNCHANGED <<text, loading, ctxCategory, ctxConfidence, llmText,
                   filteredOriginal, filteredSafe, finalText, finalRisk, started>>

\* 2) the context response arrives. D is what the backend may answer.
AfterContextFrom(D) ==
  \E m \in net, d \in D :
    /\ Awaited(m, "context")
    /\ LET r == runs[m.run]
           cat == Nullish(d.category, JNull)
           conf == NormConf(Nullish(d.confidence, JNull))
           context == [category |-> cat, confidence |-> conf]
           r1 == [r EXCEPT !.ctxRes = d, !.context = context]
       IN /\ ctxCategory' = cat
          /\ ctxConfidence' = conf
          /\ Proceed(m, Issue(r1, "llm",
                              [NoBody EXCEPT !.sanitized = r.out, !.context = context,
                                             !.rehydration_map = r.rehydrationMap]),
                     "llm")
    /\ event' = "none"
    /\ UNCHANGED <<text, sanitized, risks, logs, loading, llmText,
                   filteredOriginal, filteredSafe, finalText, started>>

\* 3) the LLM response arrives. D is what the backend may answer.
AfterLlmFrom(D) ==
  \E m \in net, d \in D :
    /\ Awaited(m, "llm")
    /\ LET r == runs[m.run]
           llmResult ==
             [answer |-> Nullish(d.answer, Nullish(d.output, EmptyStr)),
              confidence |-> Nullish(d.confidence, JNum(0)),
              explanations |-> Nullish(d.explanations, EmptyStr),
              fallback_used |-> Nullish(d.fallback_used, JBool(FALSE)),
              raw |-> Nullish(d.raw, EmptyStr)]
           llmRehydrationMap == LlmMap(d, r)
           r1 == [r EXCEPT !.llmRes = d, !.llmResult = llmResult,
                           !.llmRehydrationMap = llmRehydrationMap]
       IN /\ llmText' = llmResult.answer
          /\ Proceed(m, Issue(r1, "filter",
                              [NoBody EXCEPT !.answer = llmResult.answer,
                                             !.sanitized = r.out,
                                             !.context = r.context,
                                             !.rehydration_map = llmRehydrationMap]),
                     "filter")
    /\ event' = "none"
    /\ UNCHANGED <<text, sanitized, risks, logs, loading, ctxCategory, ctxConfidence,
                   filteredOriginal, filteredSafe, finalText, started>>

\* 4) the output-filter response arrives. D is what the backend may answer.
AfterFilterFrom(D) ==
  \E m \in net, d \in D :
    /\ Awaited(m, "filter")
    /\ LET r == runs[m.run]
           safe == Nullish(d.safe_sanitized_text, r.llmResult.answer)
           filterRehydrationMap == Nullish(d.rehydration_map, r.llmRehydrationMap)
           r1 == [r EXCEPT !.filterRes = d,
                           !.filterRehydrationMap = filterRehydrationMap]
       IN /\ filteredOriginal' = r.llmResult.answer
          /\ filteredSafe' = safe
          /\ Proceed(m, Issue(r1, "final",
                              [input |-> InputOf(r),
                               sanitized |-> r.out,
                               context |-> r.context,
                               answer |-> JNull,
                               llm_result |-> r.llmResult,
                               filtered_output |-> FilteredOutput(d, r.llmResult.answer),
                               entities |-> r.entities,
                               rehydration_map |-> filterRehydrationMap]),
                     "final")
    /\ event' = "none"
    /\ UNCHANGED <<text, sanitized, risks, logs, loading, ctxCategory, ctxConfidence,
                   llmText, finalText, started>>

\* A final stage that writes its score to the risk meter as well.
ApplyFinalOverwrites(finalTextValue, finalR) ==
  /\ finalText' = finalTextValue
  /\ finalRisk' = <<finalR>>
  /\ lastRisk' = finalR
  /\ UNCHANGED risk

\* setFinalText(finalTextValue); setFinalRisk(finalR); lastRisk is not written.
ApplyFinal(finalTextValue, finalR) ==
  /\ finalText' = finalTextValue
  /\ finalRisk' = <<finalR>>
  /\ UNCHANGED <<risk, lastRisk>>

\* 5) the final response arrives; the finally block clears loading. D is what the backend may answer.
AfterFinalFrom(D) ==
  \E m \in net, d \in D :
    /\ Awaited(m, "final")
    /\ LET r == runs[m.run]
           finalTextValue ==
             Nullish(d.final_rehydrated_text,
                     Nullish(d.result,
                             Nullish(r.filterRes.safe_sanitized_text, r.llmResult.answer)))
           finalRaw == Nullish(d.risk, Nullish(d.risk_score, JNum(0)))
           finalR == ClampScore(ParseInt(finalRaw))
       IN /\ ApplyFinal(finalTextValue, finalR)
          /\ runs' = [runs EXCEPT ![m.run].pc = "done",
                                  ![m.run].finalRes = d,
                                  ![m.run].finalTextValue = finalTextValue,
                                  ![m.run].finalR = finalR]
          /\ net' = net \ {m}
    /\ loading' = FALSE
    /\ event' = "none"
    /\ UNCHANGED <<text, sanitized, logs, ctxCategory, ctxConfidence,
                   llmText, filteredOriginal, filteredSafe, started>>

\* A rejection that is swallowed: the run goes on to its next stage.
RejectAndContinue ==
  \E m \in net, why \in {"error", "timeout"} :
    /\ m.run \in DOMAIN runs
    /\ runs[m.run].pc = m.stage
    /\ LET r == [runs[m.run] EXCEPT !.failedAt = m.stage, !.failedBy = why]
           k == StageNo(m.stage)
       IN IF k < 5
          THEN /\ runs' = [runs EXCEPT ![m.run] = Issue(r, Stages[k + 1], NoBody)]
               /\ net' = (net \ {m}) \cup {[run |-> m.run, stage |-> Stages[k + 1]]}
               /\ UNCHANGED loading
          ELSE /\ runs' = [runs EXCEPT ![m.run] = [r EXCEPT !.pc = "failed"]]
               /\ net' = net \ {m}
               /\ loading' = FALSE
    /\ event' = "none"
    /\ UNCHANGED <<text, slots, risks, logs, started>>

\* A rejection without the finally block: loading is left set.
RejectNoFinally ==
  \E m \in net, why \in {"error", "timeout"} :
    /\ m.run \in DOMAIN runs
    /\ runs[m.run].pc = m.stage
    /\ runs' = [runs EXCEPT ![m.run].pc = "failed",
                            ![m.run].failedAt = m.stage,
                            ![m.run].failedBy = why]
    /\ net' = net \ {m}
    /\ event' = "none"
    /\ UNCHANGED <<text, slots, risks, logs, loading, started>>

\* An awaited axios.post rejects (network error, error status or timeout):
\* the rest of the try block is skipped and the finally block clears loading.
Reject ==
  \E m \in net, why \in {"error", "timeout"} :
    /\ m.run \in DOMAIN runs
    /\ runs[m.run].pc = m.stage
    /\ runs' = [runs EXCEPT ![m.run].pc = "failed",
                            ![m.run].failedAt = m.stage,
                            ![m.run].failedBy = why]
    /\ net' = net \ {m}
    /\ loading' = FALSE
    /\ event' = "none"
    /\ UNCHANGED <<text, slots, risks, logs, started>>

\* The continuations with the backend's answers of this model.
AfterSanitize == AfterSanitizeFrom(SanitizeData)

AfterContext == AfterContextFrom(ContextData)

AfterLlm == AfterLlmFrom(LlmData)

AfterFilter == AfterFilterFrom(FilterData)

AfterFinal == AfterFinalFrom(FinalData)

Next ==
  \/ SetText
  \/ ClickSanitize
  \/ AfterSanitize
  \/ AfterContext
  \/ AfterLlm
  \/ AfterFilter
  \/ AfterFinal
  \/ Reject

Spec == Init /\ [][Next]_vars

\* Every request that is outstanding is eventually answered or rejected.
Respond ==
  AfterSanitize \/ AfterContext \/ AfterLlm \/ AfterFilter \/ AfterFinal \/ Reject

LiveSpec == Spec /\ WF_vars(Respond)


-----------------------------------------------------------------------------
\* Properties

ClickEvents == {"ignored", "returned", "started"}

\* The requests of run i that are outstanding.
Outstanding(i) == {m \in net : m.run = i}

\* The stage names of the requests a run has issued, in order.
IssuedStages(r) == [k \in 1..Len(r.issued) |-> r.issued[k].stage]

\* The text is empty or consists of white space only.
AllSpaces(t) == \A k \in 1..Len(t) : t[k] \in {" ", "\n", "\t"}

\* The risk the Final Output panel is given: risk={finalRisk ?? lastRisk}
FinalPanelRisk == IF finalRisk = <<>> THEN lastRisk ELSE finalRisk[1]

\* C1: within one run the requests are issued in the order sanitize, context,
\* llm, output-filter, final, each at most once; at most one request of a run
\* is outstanding and it is the one issued last, so every earlier request was
\* answered before the next one went out.
C1_StrictSequence ==
  \A i \in DOMAIN runs :
    LET r == runs[i]
        n == Len(r.issued)
    IN /\ n \in 1..5
       /\ IssuedStages(r) = SubSeq(Stages, 1, n)
       /\ Cardinality(Outstanding(i)) <= 1
       /\ \A m \in Outstanding(i) : m.stage = Stages[n] /\ r.pc = m.stage

C1_Witness ==
  \E i \in DOMAIN runs :
    /\ runs[i].pc = "done"
    /\ IssuedStages(runs[i]) = Stages
    /\ net = {}

\* C2: a run whose stage k request failed (by error or by timeout) has issued
\* exactly the requests of stages 1..k, has none outstanding, and keeps what
\* the earlier stages applied: after a failure past sanitize the head of the
\* log is still that run's entry and the sanitized text and risk still stand.
C2_FailedState ==
  \A i \in DOMAIN runs :
    LET r == runs[i]
    IN r.failedAt # "none" =>
         /\ r.pc = "failed"
         /\ IssuedStages(r) = SubSeq(Stages, 1, StageNo(r.failedAt))
         /\ Outstanding(i) = {}
         /\ StageNo(r.failedAt) >= 2 =>
              /\ logs # <<>>
              /\ Head(logs) = [text |-> r.out, score |-> r.score]
              /\ sanitized = r.out
              /\ lastRisk = r.score

\* C2, continued: a failed run never moves again.
C2_FailedStays ==
  \A i \in DOMAIN runs :
    (runs[i].pc = "failed" /\ i \in DOMAIN runs') => runs'[i] = runs[i]

\* C2: both parts, in every reachable state and every step.
C2_AbortNoRollback == [](C2_FailedState) /\ [][C2_FailedStays]_vars

C2_Witness ==
  \E i \in DOMAIN runs :
    /\ runs[i].pc = "failed"
    /\ runs[i].failedAt = "context"
    /\ runs[i].failedBy = "timeout"
    /\ Len(logs) = 1

\* C3: under LiveSpec (every outstanding request is eventually answered or
\* rejected) a run that is in flight eventually ends, with loading false.
C3_RunEnds ==
  (\E i \in DOMAIN runs : Active(runs[i]))
    ~> (~loading /\ \A i \in DOMAIN runs : ~Active(runs[i]))

C3_Witness ==
  \E i \in DOMAIN runs :
    /\ runs[i].pc = "failed"
    /\ runs[i].failedAt = "llm"
    /\ ~loading

\* C4: at most one run is in flight and at most one request is outstanding,
\* and a click on Sanitize while loading changes nothing and issues nothing.
C4_OneRun == Cardinality(Running) <= 1 /\ Cardinality(net) <= 1

C4_ClickWhileLoading ==
  (loading /\ event' \in ClickEvents) => UNCHANGED <<appState, runs, net, started>>

\* C4: one run at a time, and the click while loading is a no-op.
C4_LoadingNoOp == [](C4_OneRun) /\ [][C4_ClickWhileLoading]_vars

C4_Witness == loading /\ event = "ignored" /\ text = <<" ", "a">> /\ net # {}

\* C5: a click on Sanitize while the prompt is empty or white space only
\* changes no state variable and issues no request.
C5_BlankClick ==
  (AllSpaces(text) /\ event' \in ClickEvents) =>
    UNCHANGED <<appState, runs, net, started>>

\* C5: in every step.
C5_BlankNoOp == [][C5_BlankClick]_vars

C5_Witness ==
  /\ event = "ignored"
  /\ text = <<" ">>
  /\ ~loading
  /\ logs # <<>>
  /\ ~Falsy(finalText)

\* What the slots of stage j hold when run r has stored its result there.
SlotHolds(j, r) ==
  CASE j = 1 -> sanitized = r.out
    [] j = 2 -> ctxCategory = r.context.category /\ ctxConfidence = r.context.confidence
    [] j = 3 -> llmText = r.llmResult.answer
    [] j = 4 -> /\ filteredOriginal = r.llmResult.answer
                /\ filteredSafe = Nullish(r.filterRes.safe_sanitized_text, r.llmResult.answer)
    [] j = 5 -> finalText = r.finalTextValue

\* The slots of stage j are as clearPipeline leaves them.
SlotEmpty(j) ==
  CASE j = 1 -> sanitized = EmptyStr
    [] j = 2 -> ctxCategory = JNull /\ ctxConfidence = JNull
    [] j = 3 -> llmText = EmptyStr
    [] j = 4 -> filteredOriginal = EmptyStr /\ filteredSafe = EmptyStr
    [] j = 5 -> finalText = EmptyStr

\* C6: once a run has ended by the failure of stage k, loading is false, the
\* slots of stages 1..k-1 hold that run's results, the slots of stages k..5
\* are empty, and if k > 1 the head of the log is that run's entry.
C6_PartialResults ==
  \A i \in DOMAIN runs :
    LET r == runs[i]
        k == StageNo(r.failedAt)
    IN r.pc = "failed" =>
         /\ ~loading
         /\ \A j \in 1..5 : IF j < k THEN SlotHolds(j, r) ELSE SlotEmpty(j)
         /\ k > 1 => logs # <<>> /\ Head(logs) = [text |-> r.out, score |-> r.score]

C6_Witness ==
  \E i \in DOMAIN runs :
    /\ i = 2
    /\ runs[i].pc = "failed"
    /\ runs[i].failedAt = "context"
    /\ sanitized = JStr(<<"S">>)
    /\ Len(logs) = 2
    /\ finalRisk # <<>>


\* The value is neither null nor undefined.
Present(v) == v.t # "null"

\* C7 as stated: after a run whose five requests all succeeded, every result
\* slot is populated and the log has an entry.
C7_AllPopulated ==
  \A i \in DOMAIN runs :
    runs[i].pc = "done" =>
      /\ ~Falsy(sanitized)
      /\ ~Falsy(ctxCategory)
      /\ Present(ctxConfidence)
      /\ ~Falsy(llmText)
      /\ ~Falsy(filteredSafe)
      /\ ~Falsy(finalText)
      /\ logs # <<>>

\* C7, amended: after a run whose five requests all succeeded, the head of
\* the log is that run's entry and every result slot holds the value of its
\* response field, or the fallback where the response omits the field: ''
\* for the sanitized text and the answer, null for the category and the
\* confidence, the answer for the filtered text, the filtered text for the
\* final text.
C7_SlotsFromResponses ==
  \A i \in DOMAIN runs :
    LET r == runs[i]
    IN r.pc = "done" =>
         /\ logs # <<>>
         /\ Head(logs).text = sanitized
         /\ Head(logs).score = lastRisk
         /\ sanitized =
              (IF Present(r.sanitizeRes.sanitized) THEN r.sanitizeRes.sanitized ELSE EmptyStr)
         /\ ctxCategory = r.ctxRes.category
         /\ Present(ctxConfidence) <=> Present(r.ctxRes.confidence)
         /\ llmText =
              (IF Present(r.llmRes.answer) THEN r.llmRes.answer
               ELSE IF Present(r.llmRes.output) THEN r.llmRes.output ELSE EmptyStr)
         /\ filteredOriginal = llmText
         /\ filteredSafe =
              (IF Present(r.filterRes.safe_sanitized_text)
               THEN r.filterRes.safe_sanitized_text ELSE llmText)
         /\ finalText =
              (IF Present(r.finalRes.final_rehydrated_text)
               THEN r.finalRes.final_rehydrated_text
               ELSE IF Present(r.finalRes.result) THEN r.finalRes.result ELSE filteredSafe)

C7_Witness ==
  \E i \in DOMAIN runs :
    /\ runs[i].pc = "done"
    /\ sanitized = JStr(<<"S">>)
    /\ ctxCategory = JStr(<<"m">>)
    /\ llmText = JStr(<<"A">>)
    /\ filteredSafe = JStr(<<"A">>)
    /\ finalText = JStr(<<"R">>)
    /\ Len(logs) = 2

\* Run i receives its sanitize response in this step.
SanStep(i) ==
  /\ i \in DOMAIN runs'
  /\ runs[i].pc = "sanitize"
  /\ runs'[i].pc = "context"

\* Run i receives its final response in this step.
FinalStep(i) ==
  /\ i \in DOMAIN runs'
  /\ runs[i].pc = "final"
  /\ runs'[i].pc = "done"

\* The score of a sanitize response: risk, else risk_score, else 0, clamped.
SanitizeScore(d) ==
  ClampScore(ParseInt(IF Present(d.risk) THEN d.risk
                      ELSE IF Present(d.risk_score) THEN d.risk_score ELSE JNum(0)))

\* C8: during and after a run that has received its sanitize response,
\* lastRisk is the clamped score of that response.
C8_MeterIsSanitizeScore ==
  \A i \in DOMAIN runs :
    (runs[i].pc # "sanitize" /\ runs[i].failedAt # "sanitize") =>
      lastRisk = SanitizeScore(runs[i].sanitizeRes)

\* C8, continued: lastRisk changes only in a step that receives a sanitize
\* response; no other step, the final stage's included, writes it.
C8_MeterStep ==
  lastRisk' # lastRisk => \E i \in DOMAIN runs : SanStep(i)

\* C8: the meter holds the sanitize score and only sanitize writes it.
C8_MeterOnlySanitize == [](C8_MeterIsSanitizeScore) /\ [][C8_MeterStep]_vars

C8_Witness ==
  \E i \in DOMAIN runs :
    /\ runs[i].pc = "done"
    /\ runs[i].finalR = 80
    /\ finalRisk = <<80>>
    /\ lastRisk = 62

\* C9 as stated: after a successful final stage whose response has neither
\* risk nor risk_score, the Final Output panel shows the sanitize-stage risk
\* of that run.
C9_FinalDefaultsToSanitize ==
  \A i \in DOMAIN runs :
    (/\ runs[i].pc = "done"
     /\ ~Present(runs[i].finalRes.risk)
     /\ ~Present(runs[i].finalRes.risk_score)) =>
      FinalPanelRisk = runs[i].score

EmptySlots == <<EmptyStr, JNull, JNull, EmptyStr, EmptyStr, EmptyStr, EmptyStr>>

\* C10: while the first request of a run is outstanding the seven display
\* slots are empty.
C10_ClearedBeforeFirstResponse ==
  (\E m \in net : m.stage = "sanitize") => slots = EmptySlots

\* C10, continued: the step that starts a run empties the slots and leaves
\* risk, lastRisk, finalRisk and the log as they were.
C10_StartStep ==
  started' # started =>
    /\ slots' = EmptySlots
    /\ \E m \in net' \ net : m.stage = "sanitize"
    /\ UNCHANGED <<risk, lastRisk, finalRisk, logs>>

\* C10, continued: risk, lastRisk and the log are next written by a sanitize
\* response, finalRisk by a final response.
C10_KeepStep ==
  /\ (risk' # risk \/ lastRisk' # lastRisk \/ logs' # logs) =>
       \E i \in DOMAIN runs : SanStep(i)
  /\ finalRisk' # finalRisk => \E i \in DOMAIN runs : FinalStep(i)

\* C10: a run's start clears the slots and keeps the risk values and the log.
C10_ClearKeepsRisk ==
  [](C10_ClearedBeforeFirstResponse) /\ [][C10_StartStep /\ C10_KeepStep]_vars

C10_Witness ==
  /\ started = 2
  /\ event = "started"
  /\ slots = EmptySlots
  /\ lastRisk = 62
  /\ finalRisk = <<10>>
  /\ Len(logs) = 1


-----------------------------------------------------------------------------
\* The log at its cap

\* The most entries the log holds: the new one and prev.slice(0, 19).
LogCap == 20

\* The entries the sanitize responses of SanitizeData leave in the log.
PastEntries ==
  << [text |-> JStr(<<"S">>), score |-> 62],
     [text |-> EmptyStr, score |-> 100],
     [text |-> JStr(<<"T">>), score |-> 0] >>

\* The log after n runs, most recent first.
PastLog(n) == [k \in 1..n |-> PastEntries[(k % 3) + 1]]

\* The App after LogCap - MaxBelowCap .. LogCap runs that each failed at the
\* context stage, the prompt cleared since: the log holds their entries and
\* the sanitized text and the risk are those of the last one.
LogInit ==
  /\ \E n \in (LogCap - MaxBelowCap)..LogCap : logs = PastLog(n)
  /\ text = <<>>
  /\ sanitized = Head(logs).text
  /\ risk = Head(logs).score
  /\ lastRisk = Head(logs).score
  /\ loading = FALSE
  /\ ctxCategory = JNull
  /\ ctxConfidence = JNull
  /\ llmText = EmptyStr
  /\ filteredOriginal = EmptyStr
  /\ filteredSafe = EmptyStr
  /\ finalText = EmptyStr
  /\ finalRisk = <<>>
  /\ runs = <<>>
  /\ net = {}
  /\ started = 0
  /\ event = "none"

LogSpec == LogInit /\ [][Next]_vars

\* C11: a sanitize response puts one entry at the head of the log and keeps
\* the previous entries behind it in their order; the log grows by one up to
\* the cap, and at the cap exactly the last (oldest) entry is dropped.
C11_PrependStep ==
  \A i \in DOMAIN runs :
    SanStep(i) =>
      /\ logs' # <<>>
      /\ Head(logs') = [text |-> runs'[i].out, score |-> runs'[i].score]
      /\ Len(logs') = Min(Len(logs) + 1, LogCap)
      /\ Tail(logs') = SubSeq(logs, 1, Len(logs') - 1)

\* C11: in every reachable state the log holds at most 20 entries, and every
\* sanitize response prepends as C11_PrependStep says.
C11_LogCapped == [](Len(logs) <= LogCap) /\ [][C11_PrependStep]_vars

C11_Witness ==
  /\ started = 2
  /\ Len(logs) = LogCap
  /\ logs[1] # logs[2]
  /\ logs[3] = PastLog(LogCap)[1]
  /\ logs[LogCap] = PastLog(LogCap)[LogCap - 2]


\* C12: whenever the log is not empty, the risk meter shows the score of its
\* head entry.
C12_HeadIsMeter == logs # <<>> => lastRisk = Head(logs).score

\* C12, continued: the log changes only when a sanitize response arrives, and
\* that response adds exactly one entry, whose text is the sanitized text of
\* the response ('' if it has none) and whose score is the score written to
\* risk and lastRisk.
C12_LogStep ==
  /\ logs' # logs => \E i \in DOMAIN runs : SanStep(i)
  /\ \A i \in DOMAIN runs :
       SanStep(i) =>
         /\ Len(logs') = Min(Len(logs) + 1, LogCap)
         /\ Head(logs').text =
              (IF Present(runs'[i].sanitizeRes.sanitized)
               THEN runs'[i].sanitizeRes.sanitized ELSE EmptyStr)
         /\ Head(logs').text = sanitized'
         /\ Head(logs').score = lastRisk'
         /\ Head(logs').score = risk'

\* C12: both parts, in every reachable state and every step.
C12_OneEntryPerSanitize == [](C12_HeadIsMeter) /\ [][C12_LogStep]_vars

C12_Witness ==
  /\ Len(logs) = 2
  /\ Head(logs) = [text |-> EmptyStr, score |-> 100]
  /\ logs[2] = [text |-> JStr(<<"S">>), score |-> 62]
  /\ lastRisk = 100
  /\ finalRisk = <<10>>


-----------------------------------------------------------------------------
\* What each request carries

\* The body of the k-th request of a run (1 sanitize .. 5 final).
Sent(r, k) == r.issued[k].body

\* A field of a response, or the default when the response has none.
Received(v, default) == IF Present(v) THEN v ELSE default

\* C13: the map sent to the LLM stage is the one received from sanitize (an
\* empty map if the response had none); the map sent to the output-filter
\* stage is the one of the LLM response if it has one, otherwise the one sent
\* to the LLM stage; the map sent to the final stage is the one of the filter
\* response if it has one, otherwise the one sent to the filter stage.
C13_MapForwarded ==
  \A i \in DOMAIN runs :
    LET r == runs[i]
    IN /\ Len(r.issued) >= 3 =>
            Sent(r, 3).rehydration_map =
              Received(r.sanitizeRes.rehydration_map, JObj(<<>>))
       /\ Len(r.issued) >= 4 =>
            Sent(r, 4).rehydration_map =
              Received(r.llmRes.rehydration_map, Sent(r, 3).rehydration_map)
       /\ Len(r.issued) >= 5 =>
            Sent(r, 5).rehydration_map =
              Received(r.filterRes.rehydration_map, Sent(r, 4).rehydration_map)

C13_Witness ==
  \E i \in DOMAIN runs :
    /\ runs[i].pc = "done"
    /\ Sent(runs[i], 3).rehydration_map = JObj(<<"m1">>)
    /\ Sent(runs[i], 4).rehydration_map = JObj(<<"m2">>)
    /\ runs[i].filterRes.rehydration_map = JNull
    /\ Sent(runs[i], 5).rehydration_map = JObj(<<"m2">>)

\* The answer of an LLM response: answer, else output, else ''.
AnswerOf(d) == Received(d.answer, Received(d.output, EmptyStr))

\* C18: within one run, the sanitized text sent to the context, LLM, filter
\* and final stages is the one received from sanitize; the context sent to the
\* LLM, filter and final stages is the category and normalized confidence
\* received from the context stage; the answer sent to the filter stage and
\* the llm_result sent to the final stage come from the LLM response; and the
\* filtered_output of the final request carries the safe text that is stored
\* as the filtered text.
C18_ResultsThreaded ==
  \A i \in DOMAIN runs :
    LET r == runs[i]
        n == Len(r.issued)
    IN /\ \A k \in 2..n :
            Sent(r, k).sanitized = Received(r.sanitizeRes.sanitized, EmptyStr)
       /\ \A k \in 3..n :
            Sent(r, k).context =
              [category |-> r.ctxRes.category,
               confidence |-> NormConf(r.ctxRes.confidence)]
       /\ n >= 4 => Sent(r, 4).answer = AnswerOf(r.llmRes)
       /\ n >= 5 =>
            /\ Sent(r, 5).llm_result =
                 [answer |-> AnswerOf(r.llmRes),
                  confidence |-> Received(r.llmRes.confidence, JNum(0)),
                  explanations |-> Received(r.llmRes.explanations, EmptyStr),
                  fallback_used |-> Received(r.llmRes.fallback_used, JBool(FALSE)),
                  raw |-> Received(r.llmRes.raw, EmptyStr)]
            /\ i = started =>
                 Sent(r, 5).filtered_output.safe_sanitized_text = filteredSafe

C18_Witness ==
  \E i \in DOMAIN runs :
    /\ runs[i].pc = "final"
    /\ runs[i].filterRes.safe_sanitized_text = JNull
    /\ filteredSafe = JStr(<<"A">>)
    /\ Sent(runs[i], 5).filtered_output.safe_sanitized_text = JStr(<<"A">>)
    /\ Sent(runs[i], 5).context = [category |-> JStr(<<"m">>), confidence |-> JNum(7300)]
    /\ Sent(runs[i], 5).sanitized = JStr(<<"S">>)

\* C20: the input field of the sanitize, context and final requests of one
\* run is the prompt text of the moment the run was triggered.
C20_InputOfTrigger ==
  \A i \in DOMAIN runs :
    \A k \in 1..Len(runs[i].issued) :
      k \in {1, 2, 5} => Sent(runs[i], k).input = JStr(runs[i].text)

\* C20, continued: the text a run keeps is the prompt of the click that
\* started it, and no later step changes it.
C20_TriggerStep ==
  /\ started' # started => runs'[started'].text = text
  /\ \A i \in DOMAIN runs \cap DOMAIN runs' : runs'[i].text = runs[i].text

\* C20: both parts; SetText steps during the run are among the steps checked.
C20_InputFixedAtTrigger == [](C20_InputOfTrigger) /\ [][C20_TriggerStep]_vars

C20_Witness ==
  \E i \in DOMAIN runs :
    /\ runs[i].pc = "done"
    /\ text # runs[i].text
    /\ Blank(text)
    /\ Sent(runs[i], 1).input = JStr(<<" ", "a">>)
    /\ Sent(runs[i], 5).input = JStr(<<" ", "a">>)


-----------------------------------------------------------------------------
\* The confidence of the context stage, over the numbers a backend can return

\* One ordinary answer per stage, for the stages a specification does not vary.
TypicalSanitize ==
  { [sanitized |-> JStr(<<"S">>), risk |-> JNum(6200), risk_score |-> JNull,
     rehydration_map |-> JObj(<<"m1">>), entities |-> JObj(<<"e1">>)] }

TypicalContext == { [category |-> JStr(<<"m">>), confidence |-> JNum(73)] }

TypicalLlm ==
  { [answer |-> JStr(<<"A">>), output |-> JNull, confidence |-> JNum(90),
     explanations |-> JStr(<<"x">>), fallback_used |-> JBool(TRUE),
     raw |-> JStr(<<"r">>), rehydration_map |-> JNull] }

TypicalFilter ==
  { [safe_sanitized_text |-> JStr(<<"F">>), leak_detected |-> JBool(TRUE),
     notes |-> JStr(<<"n">>), rehydration_map |-> JObj(<<"m3">>)] }

TypicalFinal ==
  { [final_rehydrated_text |-> JStr(<<"R">>), result |-> JNull,
     risk |-> JNum(1000), risk_score |-> JNull] }

\* Confidences in hundredths: 0, 0.73, 1, 1.01, 73, 73.4, 73.5, 100, 150, -0.5.
Confidences == {0, 73, 100, 101, 7300, 7340, 7350, 10000, 15000, -50}

\* response.data of POST /api/context: no confidence, or any of the numbers.
ConfidenceData ==
  { [category |-> JStr(<<"m">>), confidence |-> JNull] }
  \cup { [category |-> JStr(<<"m">>), confidence |-> JNum(c)] : c \in Confidences }

SanitizeTypical == AfterSanitizeFrom(TypicalSanitize)

ContextAnyConfidence == AfterContextFrom(ConfidenceData)

LlmTypical == AfterLlmFrom(TypicalLlm)

FilterTypical == AfterFilterFrom(TypicalFilter)

FinalTypical == AfterFinalFrom(TypicalFinal)

ConfNext ==
  \/ SetText
  \/ ClickSanitize
  \/ SanitizeTypical
  \/ ContextAnyConfidence
  \/ LlmTypical
  \/ FilterTypical
  \/ FinalTypical
  \/ Reject

ConfSpec == Init /\ [][ConfNext]_vars

\* The run whose context result the display holds: the latest one, once it has
\* received its context response.
PastContext(i) == i = started /\ i \in DOMAIN runs /\ Len(runs[i].issued) >= 3

\* C15 as stated: the stored confidence is null when the context response has
\* none, and otherwise an integer percentage between 0 and 100.
C15_ConfidenceIsPercentage ==
  \A i \in DOMAIN runs :
    PastContext(i) =>
      IF Present(runs[i].ctxRes.confidence)
      THEN /\ ctxConfidence.t = "num"
           /\ ctxConfidence.n % 100 = 0
           /\ 0 <= ctxConfidence.n
           /\ ctxConfidence.n <= 10000
      ELSE ctxConfidence = JNull

\* Math.round(x) is the integer k with k - 0.5 <= x < k + 0.5; h and the
\* result are in hundredths.
Nearest(h) == 100 * (CHOOSE k \in -200..200 : 100 * k - 50 <= h /\ h < 100 * k + 50)

\* The percentage C16 gives for a returned confidence c (in hundredths).
Percent(c) == IF c <= 100 THEN Nearest(100 * c) ELSE Nearest(c)

\* C16: a returned confidence c <= 1 (1 and 0 included) is stored as c * 100
\* rounded, a confidence c > 1 as c rounded; 0.73 and 73 both give 73; and the
\* stored value is the context.confidence sent to the LLM, filter and final
\* stages.
C16_Normalized ==
  /\ Percent(73) = 7300
  /\ Percent(7300) = 7300
  /\ \A i \in DOMAIN runs :
       LET r == runs[i]
           c == r.ctxRes.confidence
       IN /\ PastContext(i) /\ Present(c) => ctxConfidence = JNum(Percent(c.n))
          /\ PastContext(i) =>
               \A k \in 3..Len(r.issued) : Sent(r, k).context.confidence = ctxConfidence

C16_Witness ==
  \E i \in DOMAIN runs :
    /\ runs[i].pc = "done"
    /\ runs[i].ctxRes.confidence = JNum(100)
    /\ ctxConfidence = JNum(10000)
    /\ Sent(runs[i], 5).context.confidence = JNum(10000)


-----------------------------------------------------------------------------
\* The risk scores, over the values a backend can return

\* What a response can hold as its risk: nothing, 62, 150, -5, 10.5, true,
\* and the strings "x", "5x", "-3" and " 42".
RiskValues ==
  { JNull, JNum(6200), JNum(15000), JNum(-500), JNum(1050), JBool(TRUE),
    JStr(<<"x">>), JStr(<<"5", "x">>), JStr(<<"-", "3">>), JStr(<<" ", "4", "2">>) }

\* Likewise for the final response: nothing, 150, -5 and "5x".
FinalRiskValues == { JNull, JNum(15000), JNum(-500), JStr(<<"5", "x">>) }

\* response.data of POST /api/sanitize with any of these as its risk, or with
\* no risk and a risk_score.
RiskData ==
  { [sanitized |-> JStr(<<"S">>), risk |-> v, risk_score |-> JNull,
     rehydration_map |-> JObj(<<"m1">>), entities |-> JObj(<<"e1">>)] : v \in RiskValues }
  \cup { [sanitized |-> JStr(<<"S">>), risk |-> JNull, risk_score |-> JNum(3000),
          rehydration_map |-> JObj(<<"m1">>), entities |-> JObj(<<"e1">>)] }

\* response.data of POST /api/final, likewise.
FinalRiskData ==
  { [final_rehydrated_text |-> JStr(<<"R">>), result |-> JNull,
     risk |-> v, risk_score |-> JNull] : v \in FinalRiskValues }
  \cup { [final_rehydrated_text |-> JStr(<<"R">>), result |-> JNull,
          risk |-> JNull, risk_score |-> JNum(8000)] }

SanitizeAnyRisk == AfterSanitizeFrom(RiskData)

ContextTypical == AfterContextFrom(TypicalContext)

FinalAnyRisk == AfterFinalFrom(FinalRiskData)

ScoreNext ==
  \/ SetText
  \/ ClickSanitize
  \/ SanitizeAnyRisk
  \/ ContextTypical
  \/ LlmTypical
  \/ FilterTypical
  \/ FinalAnyRisk
  \/ Reject

ScoreSpec == Init /\ [][ScoreNext]_vars

\* The risk a response carries: risk, else risk_score, else nothing.
RawRisk(d) == Received(d.risk, d.risk_score)

\* A decimal integer literal: an optional sign and one or more digits.
IsNumeral(cs) ==
  LET u == IF cs # <<>> /\ Head(cs) \in {"-", "+"} THEN Tail(cs) ELSE cs
  IN u # <<>> /\ \A k \in 1..Len(u) : u[k] \in Digits

\* A value that is neither a number nor the literal of one.
NonNumeric(v) == v.t # "num" /\ ~(v.t = "str" /\ IsNumeral(Trim(v.s)))

\* Every stored score is an integer between 0 and 100.
ScoresInRange ==
  /\ risk \in 0..100
  /\ lastRisk \in 0..100
  /\ \A k \in 1..Len(logs) : logs[k].score \in 0..100
  /\ finalRisk # <<>> => finalRisk[1] \in 0..100

\* The score C14 states for a raw value v, where it states one.
StatedScore(v, score) ==
  /\ v.t = "num" /\ v.n < 0 => score = 0
  /\ v.t = "num" /\ v.n > 10000 => score = 100
  /\ NonNumeric(v) => score = 0

\* C14 as stated: all stored scores are integers in [0,100]; a value below 0
\* is stored as 0, a value above 100 as 100, a missing or non-numeric value
\* as 0.
C14_ScoresClamped ==
  /\ ScoresInRange
  /\ \A i \in DOMAIN runs :
       LET r == runs[i]
       IN /\ Len(r.issued) >= 2 => StatedScore(RawRisk(r.sanitizeRes), r.score)
          /\ r.pc = "done" => StatedScore(RawRisk(r.finalRes), r.finalR)

\* The score the code stores for a raw value v: the integer parseInt reads
\* (a number without its fraction, a string's leading integer), brought into
\* [0,100]; 0 where parseInt reads none.
ReadScore(v, score) ==
  LET p == ParseInt(v)
  IN /\ p = <<>> => score = 0
     /\ p # <<>> /\ p[1] < 0 => score = 0
     /\ p # <<>> /\ p[1] > 100 => score = 100
     /\ p # <<>> /\ p[1] \in 0..100 => score = p[1]

\* C14, amended: all stored scores are integers in [0,100]; the value is read
\* with parseInt, so a string that begins with an integer gives that integer
\* ("5x" gives 5) and only a value with no leading integer, or a missing one,
\* gives 0; the integer read is stored as 0 below 0 and as 100 above 100. The
\* stored risk, lastRisk, log score and finalRisk are that score.
C14_ScoresFromParseInt ==
  /\ ScoresInRange
  /\ ParseInt(JStr(<<"5", "x">>)) = <<5>>
  /\ ParseInt(JStr(<<"x">>)) = <<>>
  /\ ParseInt(JBool(TRUE)) = <<>>
  /\ ParseInt(JNum(1050)) = <<10>>
  /\ \A i \in DOMAIN runs :
       LET r == runs[i]
       IN /\ Len(r.issued) >= 2 =>
               /\ ReadScore(Received(RawRisk(r.sanitizeRes), JNum(0)), r.score)
               /\ i = started => risk = r.score /\ lastRisk = r.score
                                 /\ Head(logs).score = r.score
          /\ r.pc = "done" =>
               /\ ReadScore(Received(RawRisk(r.finalRes), JNum(0)), r.finalR)
               /\ i = started => finalRisk = <<r.finalR>>

C14_Witness ==
  \E i \in DOMAIN runs :
    /\ runs[i].pc = "done"
    /\ runs[i].sanitizeRes.risk = JStr(<<"5", "x">>)
    /\ lastRisk = 5
    /\ Head(logs).score = 5
    /\ runs[i].finalRes.risk = JNum(-500)
    /\ finalRisk = <<0>>


-----------------------------------------------------------------------------
\* The risk bands of the three components that colour a score

\* RiskMeter: clamped < 40 ? green : clamped < 70 ? yellow : red
RiskMeterBand(value) ==
  LET clamped == Max(0, Min(100, value))
  IN IF clamped < 40 THEN "green" ELSE IF clamped < 70 THEN "yellow" ELSE "red"

\* RiskMeter: clamped < 40 ? 'Low' : clamped < 70 ? 'Moderate' : 'High'
RiskMeterLabel(value) ==
  LET clamped == Max(0, Min(100, value))
  IN IF clamped < 40 THEN "Low" ELSE IF clamped < 70 THEN "Moderate" ELSE "High"

\* A badge that still shows 40 as green.
LogsBadgeBandInclusive(score) ==
  IF score <= 40 THEN "green" ELSE IF score < 70 THEN "yellow" ELSE "red"

\* LogsTable: row.score < 40 ? green : row.score < 70 ? yellow : red
LogsBadgeBand(score) ==
  IF score < 40 THEN "green" ELSE IF score < 70 THEN "yellow" ELSE "red"

\* FinalOutput: (risk ?? 0) < 40 ? green : (risk ?? 0) < 70 ? yellow : red;
\* p is <<>> for a null risk.
FinalBadgeBand(p) ==
  LET v == IF p = <<>> THEN 0 ELSE p[1]
  IN IF v < 40 THEN "green" ELSE IF v < 70 THEN "yellow" ELSE "red"

Scores == 0..100

\* The state after a run whose sanitize response gave the score r and whose
\* context request failed: r is on the meter, in the log and, finalRisk being
\* null, on the Final Output badge.
BandInit ==
  /\ \E r \in Scores :
       /\ risk = r
       /\ lastRisk = r
       /\ logs = <<[text |-> JStr(<<"S">>), score |-> r]>>
  /\ text = <<>>
  /\ sanitized = JStr(<<"S">>)
  /\ loading = FALSE
  /\ ctxCategory = JNull
  /\ ctxConfidence = JNull
  /\ llmText = EmptyStr
  /\ filteredOriginal = EmptyStr
  /\ filteredSafe = EmptyStr
  /\ finalText = EmptyStr
  /\ finalRisk = <<>>
  /\ runs = <<>>
  /\ net = {}
  /\ started = 0
  /\ event = "none"

BandNext ==
  \/ SetText
  \/ ClickSanitize
  \/ SanitizeTypical
  \/ ContextTypical
  \/ LlmTypical
  \/ FilterTypical
  \/ FinalTypical
  \/ Reject

BandSpec == BandInit /\ [][BandNext]_vars

\* The band b of score r is the one C17 states.
StatedBand(b, r) ==
  /\ b = "green" <=> r < 40
  /\ b = "yellow" <=> (40 <= r /\ r < 70)
  /\ b = "red" <=> r >= 70

\* C17: every score on display (the meter's, each log row's, the Final Output
\* badge's) is shown low/green iff it is below 40, moderate/yellow iff it is
\* in 40..69 and high/red iff it is 70 or more, and the three components
\* choose the same band for the same score.
C17_BandsAgree ==
  /\ StatedBand(RiskMeterBand(lastRisk), lastRisk)
  /\ RiskMeterLabel(lastRisk) = "Low" <=> lastRisk < 40
  /\ RiskMeterLabel(lastRisk) = "Moderate" <=> (40 <= lastRisk /\ lastRisk < 70)
  /\ RiskMeterLabel(lastRisk) = "High" <=> lastRisk >= 70
  /\ \A k \in 1..Len(logs) :
       /\ StatedBand(LogsBadgeBand(logs[k].score), logs[k].score)
       /\ LogsBadgeBand(logs[k].score) = RiskMeterBand(logs[k].score)
       /\ LogsBadgeBand(logs[k].score) = FinalBadgeBand(<<logs[k].score>>)
  /\ StatedBand(FinalBadgeBand(<<FinalPanelRisk>>), FinalPanelRisk)
  /\ FinalBadgeBand(<<FinalPanelRisk>>) = RiskMeterBand(FinalPanelRisk)

C17_Witness ==
  /\ Len(logs) = 2
  /\ logs[2].score = 70
  /\ LogsBadgeBand(logs[2].score) = "red"
  /\ lastRisk = 62
  /\ RiskMeterBand(lastRisk) = "yellow"
  /\ finalRisk = <<10>>
  /\ FinalBadgeBand(<<FinalPanelRisk>>) = "green"


-----------------------------------------------------------------------------
\* The loading placeholder of the five stage panels

\* Sanitized Output: {loading ? shimmer : sanitized ? ... : ...}
SanitizedPanelLoading == loading

\* <ContextAnalysis loading={loading && !ctxCategory} />
ContextPanelLoading == loading /\ Falsy(ctxCategory)

\* <LLMResponse loading={loading && !llmText} />
LlmPanelLoading == loading /\ Falsy(llmText)

\* <OutputFilter loading={loading && !filteredSafe} />
FilterPanelLoading == loading /\ Falsy(filteredSafe)

\* <FinalOutput loading={loading && !finalText} />
FinalPanelLoading == loading /\ Falsy(finalText)

\* Whether the panel of stage k (1 sanitize .. 5 final) shows the placeholder.
PanelLoading(k) ==
  CASE k = 1 -> SanitizedPanelLoading
    [] k = 2 -> ContextPanelLoading
    [] k = 3 -> LlmPanelLoading
    [] k = 4 -> FilterPanelLoading
    [] k = 5 -> FinalPanelLoading

\* The run has stored the result of stage k: it has gone on to a later stage
\* or has finished.
Stored(r, k) == Len(r.issued) > k \/ r.pc = "done"

\* C19 as stated: while a run is in progress, the panel of each stage shows
\* the loading placeholder exactly while that stage's result has not yet been
\* stored in this run.
C19_PlaceholderUntilStored ==
  \A i \in DOMAIN runs :
    Active(runs[i]) =>
      \A k \in 1..5 : PanelLoading(k) <=> ~Stored(runs[i], k)


-----------------------------------------------------------------------------
\* The loading flag and finalRisk across runs

\* C21: loading is true if and only if a run is in flight (started, and
\* neither done with its final stage nor failed); in particular loading is
\* true whenever a stage request is outstanding.
C21_LoadingIffInFlight ==
  /\ loading <=> \E i \in DOMAIN runs : Active(runs[i])
  /\ net # {} => loading
  /\ started = 0 => ~loading

C21_Witness ==
  /\ started = 2
  /\ loading
  /\ \E m \in net : m.run = 2 /\ m.stage = "filter"
  /\ finalRisk = <<>>

\* C22: finalRisk is changed only by a successful final stage, which stores
\* that stage's score; it is null before the first one and never null after.
C22_FinalRiskStep ==
  /\ finalRisk' # finalRisk => \E i \in DOMAIN runs : FinalStep(i)
  /\ \A i \in DOMAIN runs : FinalStep(i) => finalRisk' = <<runs'[i].finalR>>
  /\ (event' = "started" \/ \E i \in DOMAIN runs : runs'[i].pc = "failed" /\ runs[i].pc # "failed")
       => finalRisk' = finalRisk

\* C22, continued: as long as no run has completed its final stage finalRisk
\* is null; and while a later run is in flight or has failed, the Final
\* Output panel shows the final risk of the most recent successful final
\* stage next to an empty final text, not the sanitize-stage risk.
C22_StaleFinalRisk ==
  /\ (\A i \in DOMAIN runs : runs[i].pc # "done") /\ started <= 1 => finalRisk = <<>>
  /\ \A i \in DOMAIN runs :
       (i = started /\ runs[i].pc # "done" /\ finalRisk # <<>>) =>
         /\ finalText = EmptyStr
         /\ FinalPanelRisk = finalRisk[1]

\* C22: both parts.
C22_FinalRiskKept == [](C22_StaleFinalRisk) /\ [][C22_FinalRiskStep]_vars

C22_Witness ==
  /\ started = 2
  /\ runs[2].pc = "failed"
  /\ runs[2].failedAt = "final"
  /\ finalRisk = <<80>>
  /\ lastRisk = 62
  /\ FinalPanelRisk = 80
  /\ finalText = EmptyStr

====
